---- MODULE Spec2Model ----
(***************************************************************************)
(* Model of plugin/managers.py: the pair-key codec of StructurePairManager *)
(* and the shape-backed ShapesLineManager (cache keyed by structure pair,  *)
(* stream-based colour updates).                                           *)
(*                                                                         *)
(* Strings are sequences of character codes, so that str(), ','.join and   *)
(* sorted() on strings are computed the way Python computes them.          *)
(***************************************************************************)
EXTENDS Integers, Sequences, FiniteSets, TLC

VARIABLES drawn, data, stream, lineIndex, lineColor, nextIndex, log,
          kpc, ka, kb, kres,
          call, args, ret

vars == <<drawn, data, stream, lineIndex, lineColor, nextIndex, log, kpc, ka, kb, kres,
          call, args, ret>>
mgrVars == <<drawn, data, stream, lineIndex, lineColor, nextIndex, log>>
keyVars == <<kpc, ka, kb, kres>>
\* one call of a function outside the shape manager: which one, its
\* arguments, what it returned
fnVars == <<call, args, ret>>

----------------------------------------------------------------------------
(* Python strings *)

CommaSep == <<44>>
BarSep == <<124>>

DigitChar(d) == 48 + d

RECURSIVE IntToStr(_)
IntToStr(n) == IF n < 10 THEN <<DigitChar(n)>>
               ELSE IntToStr(n \div 10) \o <<DigitChar(n % 10)>>

MinOf(a, b) == IF a <= b THEN a ELSE b

\* s < t in Python's string order (code point by code point, prefix first)
StrLess(s, t) ==
    \E i \in 1..(MinOf(Len(s), Len(t)) + 1) :
        /\ \A j \in 1..(i - 1) : s[j] = t[j]
        /\ \/ i > Len(s) /\ i <= Len(t)
           \/ i <= Len(s) /\ i <= Len(t) /\ s[i] < t[i]

StrLeq(s, t) == s = t \/ StrLess(s, t)

RECURSIVE Join(_, _)
Join(sep, strs) == IF Len(strs) = 0 THEN <<>>
                   ELSE IF Len(strs) = 1 THEN strs[1]
                   ELSE strs[1] \o sep \o Join(sep, Tail(strs))

\* sorted() of a list of two strings (stable)
SortedPair(a, b) == IF StrLess(b, a) THEN <<b, a>> ELSE <<a, b>>

\* sorted() of a list of ints
RECURSIVE InsertInt(_, _)
InsertInt(x, s) == IF Len(s) = 0 THEN <<x>>
                   ELSE IF x < Head(s) THEN <<x>> \o s
                   ELSE <<Head(s)>> \o InsertInt(x, Tail(s))

UnsortedInts(s) == s

RECURSIVE SortedInts(_)
SortedInts(s) == IF Len(s) = 0 THEN <<>>
                 ELSE InsertInt(s[Len(s)], SortedInts(SubSeq(s, 1, Len(s) - 1)))

\* an identifier is an int or a str; str() of it
IntId(n) == [t |-> "int", v |-> n]
StrId(s) == [t |-> "str", v |-> s]
Str(x) == IF x.t = "int" THEN IntToStr(x.v) ELSE x.v

----------------------------------------------------------------------------
(* StructurePairManager *)

get_structpair_key_unsorted(struct1_key, struct2_key) ==
    Join(BarSep, <<Str(struct1_key), Str(struct2_key)>>)

get_structpair_key(struct1_key, struct2_key) ==
    Join(BarSep, SortedPair(Str(struct1_key), Str(struct2_key)))

get_structpair_key_for_line_unsorted(atom1_idx_arr, atom2_idx_arr) ==
    LET struct1_key == Join(CommaSep, [i \in DOMAIN SortedInts(atom1_idx_arr) |->
                                          IntToStr(SortedInts(atom1_idx_arr)[i])])
        struct2_key == Join(CommaSep, [i \in DOMAIN SortedInts(atom2_idx_arr) |->
                                          IntToStr(SortedInts(atom2_idx_arr)[i])])
    IN  Join(BarSep, <<struct1_key, struct2_key>>)

\* get_structpair_key_for_line, on the two endpoint atom-index arrays
get_structpair_key_for_line(atom1_idx_arr, atom2_idx_arr) ==
    LET struct1_key == Join(CommaSep, [i \in DOMAIN SortedInts(atom1_idx_arr) |->
                                          IntToStr(SortedInts(atom1_idx_arr)[i])])
        struct2_key == Join(CommaSep, [i \in DOMAIN SortedInts(atom2_idx_arr) |->
                                          IntToStr(SortedInts(atom2_idx_arr)[i])])
    IN  Join(BarSep, SortedPair(struct1_key, struct2_key))

----------------------------------------------------------------------------
(* Structures and line entities handed to the manager by its caller *)

\* InteractionStructure: atoms in the order the structure lists them, and
\* its conformer
S1 == [atoms |-> <<2, 1>>, conformer |-> 0]
S2 == [atoms |-> <<5>>, conformer |-> 0]
S3 == [atoms |-> <<10>>, conformer |-> 0]

\* InteractionStructure.index: the comma-joined sorted atom indices
StructIndex(s) ==
    StrId(Join(CommaSep, [i \in DOMAIN SortedInts(s.atoms) |-> IntToStr(SortedInts(s.atoms)[i])]))

Kinds == {"HydrogenBond", "PiStacking"}

\* ShapesLineManager.draw_interaction_line: the immutable part of the entity
draw_interaction_line(struct1, struct2, kind) ==
    [struct1 |-> struct1, struct2 |-> struct2, kind |-> kind]

\* line entities are named by their position in the heap `drawn`
Lines == DOMAIN drawn
Line(l) == drawn[l]

\* InteractionShapesLine fields read by the manager
atom1_idx_arr(l) == Line(l).struct1.atoms
atom2_idx_arr(l) == Line(l).struct2.atoms
structure_indices(l) == <<StructIndex(Line(l).struct1), StructIndex(Line(l).struct2)>>
LineKind(l) == Line(l).kind

\* an object that is not an InteractionShapesLine
NotALine == 0

\* Shape.index before the host has assigned one
NoIndex == -1

\* colour of a line no update has written yet
NoColor == <<>>

----------------------------------------------------------------------------
(* ShapesLineManager *)

EmptyMap == [k \in {} |-> <<>>]

\* defaultdict read: self._data[key] inserts an empty list for a missing key
Vivify(d, key) == IF key \in DOMAIN d THEN d ELSE (key :> <<>>) @@ d

\* keys in ascending order, as sorted(self._data.items(), key=...) visits them
RECURSIVE SortedKeys(_)
SortedKeys(K) == IF K = {} THEN <<>>
                 ELSE LET m == CHOOSE k \in K : \A o \in K : StrLeq(k, o)
                      IN  <<m>> \o SortedKeys(K \ {m})

RECURSIVE Flatten(_, _)
Flatten(d, keys) == IF Len(keys) = 0 THEN <<>>
                    ELSE d[Head(keys)] \o Flatten(d, Tail(keys))

all_lines(d) == Flatten(d, SortedKeys(DOMAIN d))

\* self._stream: no attribute ("unset"), a falsy handle ("none"), or a live
\* stream bound to the index list it was created with
NoStream == [state |-> "unset", bound |-> <<>>]
FalsyStream == [state |-> "none", bound |-> <<>>]
LiveStream(indices) == [state |-> "live", bound |-> indices]

StreamLive(s) == s.state = "live"

\* _destroy_stream: destroys and forgets a live stream, else does nothing
destroy_stream(s) == IF StreamLive(s) THEN NoStream ELSE s

DestroyCalls(s) == IF StreamLive(s) THEN << [call |-> "stream_destroy", arg |-> s.bound] >> ELSE <<>>

KindsOf(list) == {LineKind(list[i]) : i \in DOMAIN list}

\* add_line on the manager state st = [data, stream] and the call's outputs so
\* far: calls (to the host), log (Logs messages), raised (the exception)
add_line(st, line) ==
    IF line = NotALine
    THEN [st EXCEPT !.raised = "TypeError"]
    ELSE LET structpair_key == get_structpair_key_for_line(atom1_idx_arr(line), atom2_idx_arr(line))
             d == Vivify(st.data, structpair_key)
         IN  IF LineKind(line) \notin KindsOf(d[structpair_key])
             THEN [st EXCEPT !.data = [d EXCEPT ![structpair_key] = Append(@, line)],
                             !.stream = destroy_stream(st.stream),
                             !.calls = @ \o DestroyCalls(st.stream)]
             ELSE [st EXCEPT !.data = d]

\* add_lines: add_line on each element in order; an exception ends the loop
RECURSIVE add_lines(_, _)
add_lines(st, line_list) ==
    IF Len(line_list) = 0 \/ st.raised # "" THEN st
    ELSE add_lines(add_line(st, Head(line_list)), Tail(line_list))

\* list.remove(x): drops the first occurrence
RemoveFirst(list, x) ==
    LET i == CHOOSE k \in DOMAIN list : list[k] = x /\ \A j \in 1..(k - 1) : list[j] # x
    IN  SubSeq(list, 1, i - 1) \o SubSeq(list, i + 1, Len(list))

InList(list, x) == \E i \in DOMAIN list : list[i] = x

\* the loop of destroy_lines; list.remove raises ValueError for a missing line
RECURSIVE destroy_loop(_, _)
destroy_loop(st, lines_to_delete) ==
    IF Len(lines_to_delete) = 0 \/ st.raised # "" THEN st
    ELSE LET line == Head(lines_to_delete)
             structpair_key == get_structpair_key_for_line(atom1_idx_arr(line), atom2_idx_arr(line))
             next == IF structpair_key \in DOMAIN st.data
                     THEN IF InList(st.data[structpair_key], line)
                          THEN [st EXCEPT !.data[structpair_key] = RemoveFirst(@, line)]
                          ELSE [st EXCEPT !.raised = "ValueError"]
                     ELSE [st EXCEPT !.log = Append(@, "Line not found in manager while deleting.")]
         IN  destroy_loop(next, Tail(lines_to_delete))

destroy_lines(st, lines_to_delete) ==
    destroy_loop([st EXCEPT !.calls = @ \o << [call |-> "destroy_multiple", arg |-> lines_to_delete] >>],
                 lines_to_delete)

\* ShapesLineManager.get_lines_for_structure_pair: the defaultdict read of the
\* key of the two structures' index strings
get_lines_for_structure_pair(d, struct1, struct2) ==
    LET key == get_structpair_key(StructIndex(struct1), StructIndex(struct2))
    IN  [data |-> Vivify(d, key), result |-> Vivify(d, key)[key]]

\* Shape.upload_multiple: the host gives every entity that has none a fresh index
RECURSIVE host_upload(_, _, _)
host_upload(idx, next, line_list) ==
    IF Len(line_list) = 0 THEN [lineIndex |-> idx, nextIndex |-> next]
    ELSE IF idx[Head(line_list)] = NoIndex
         THEN host_upload([idx EXCEPT ![Head(line_list)] = next], next + 1, Tail(line_list))
         ELSE host_upload(idx, next, Tail(line_list))

\* utils.line_in_frame: every atom of both endpoints is among the frame's atoms
line_in_frame(line, atoms) ==
    /\ \A i \in DOMAIN atom1_idx_arr(line) : atom1_idx_arr(line)[i] \in atoms
    /\ \A j \in DOMAIN atom2_idx_arr(line) : atom2_idx_arr(line)[j] \in atoms

\* atoms of the current molecule of every complex (a complex is given by them)
FrameAtoms(complexes) == UNION {complexes[i] : i \in DOMAIN complexes}

\* colour of one line in the update loop: Color(*form_data['color']), alpha by visibility
line_rgba_or(form_data, line_is_in_frame) ==
    LET hide_interaction == (~form_data.visible) /\ (~line_is_in_frame)
    IN  form_data.color \o << IF hide_interaction THEN 0 ELSE 255 >>

line_rgba(form_data, line_is_in_frame) ==
    LET hide_interaction == (~form_data.visible) \/ (~line_is_in_frame)
    IN  form_data.color \o << IF hide_interaction THEN 0 ELSE 255 >>

\* _update_line: the first stored line with the same index is replaced by line
update_line(d, idx, line) ==
    LET structpair_key == get_structpair_key(structure_indices(line)[1], structure_indices(line)[2])
        d1 == Vivify(d, structpair_key)
        line_list == d1[structpair_key]
        hits == {i \in DOMAIN line_list : idx[line_list[i]] = idx[line]}
    IN  IF hits = {} THEN d1
        ELSE LET i == CHOOSE k \in hits : \A j \in hits : k <= j
             IN  [d1 EXCEPT ![structpair_key][i] = line]

\* the loop of update_interaction_lines over the lines all_lines() returned
RECURSIVE update_loop(_, _, _, _, _)
update_loop(acc, idx, lines, interactions_data, atoms) ==
    IF Len(lines) = 0 THEN acc
    ELSE LET line == Head(lines)
             rgba == line_rgba(interactions_data[LineKind(line)], line_in_frame(line, atoms))
         IN  update_loop([data |-> update_line(acc.data, idx, line),
                          lineColor |-> [acc.lineColor EXCEPT ![line] = rgba],
                          new_colors |-> acc.new_colors \o rgba],
                         idx, Tail(lines), interactions_data, atoms)

\* `if not line_indices`: the flattened list of cached lines is empty
has_no_lines_keys(d, line_indices) == DOMAIN d = {}

has_no_lines(d, line_indices) == Len(line_indices) = 0

\* `if not self._stream` after create_writing_stream: the pass is given up
creation_failed_ignored(s) == FALSE

creation_failed(s) == ~StreamLive(s)

\* ShapesLineManager.update_interaction_lines; host_ok is what
\* plugin.create_writing_stream answers if it is asked
update_interaction_lines(d, s, idx, col, interactions_data, complexes, host_ok) ==
    LET lines == all_lines(d)
        line_indices == [i \in DOMAIN lines |-> idx[lines[i]]]
        same == [data |-> d, stream |-> s, lineColor |-> col, calls |-> <<>>, log |-> <<>>,
                 lines |-> lines, line_indices |-> line_indices, outcome |-> "returned"]
        create == IF StreamLive(s) THEN <<>>
                  ELSE << [call |-> "create_writing_stream", arg |-> line_indices] >>
        recreating == IF StreamLive(s) THEN <<>> ELSE << "Recreating Stream." >>
        s1 == IF StreamLive(s) THEN s
              ELSE IF host_ok THEN LiveStream(line_indices) ELSE FalsyStream
        done == update_loop([data |-> d, lineColor |-> col, new_colors |-> <<>>],
                            idx, lines, interactions_data, FrameAtoms(complexes))
    IN  IF Len(complexes) = 0
        THEN [same EXCEPT !.log = << "No complexes to update, returning" >>]
        ELSE IF has_no_lines(d, line_indices)
        THEN [same EXCEPT !.log = << "No interaction lines to update, returning" >>]
        ELSE IF creation_failed(s1)
        THEN [same EXCEPT !.stream = s1, !.calls = create,
                          !.log = recreating \o << "Failed to Create stream." >>]
        ELSE [data |-> done.data, stream |-> s1, lineColor |-> done.lineColor,
              calls |-> create \o << [call |-> "stream_update",
                                      arg |-> [bound |-> s1.bound, buffer |-> done.new_colors]] >>,
              log |-> recreating, lines |-> lines, line_indices |-> line_indices,
              outcome |-> "pushed"]

----------------------------------------------------------------------------
(* Inputs *)

\* longest list handed to add_lines, destroy_lines and upload
MaxBatch == 2

Batches(S) == UNION {[1..n -> S] : n \in 1..MaxBatch}

\* the line entities the caller has drawn: two lines of one pair and one kind,
\* two lines of one pair and two kinds, two lines of two pairs
DrawnInputs ==
    { << draw_interaction_line(S1, S2, "HydrogenBond"), draw_interaction_line(S2, S1, "HydrogenBond") >>,
      << draw_interaction_line(S1, S2, "HydrogenBond"), draw_interaction_line(S2, S1, "PiStacking") >>,
      << draw_interaction_line(S1, S2, "PiStacking"), draw_interaction_line(S3, S1, "HydrogenBond") >> }

\* the structure pairs get_lines_for_structure_pair is asked for
PairInputs == { <<S1, S2>>, <<S2, S1>> }

\* interactions_data: per kind, visible and colour
SettingsInputs ==
    { [k \in Kinds |-> [visible |-> (k \in v), color |-> IF k = "HydrogenBond" THEN <<1, 2, 3>> ELSE <<4, 5, 6>>]]
      : v \in {{"HydrogenBond"}, {"PiStacking"}} }

\* complexes: each complex by the atoms of its current molecule
ComplexInputs == { <<>>, << {1, 2, 5, 10} >>, << {1, 2}, {10} >> }

\* identifiers handed to get_structpair_key
KeyIds == {IntId(1), IntId(2), IntId(5), IntId(10), IntId(12),
           StrId(<<49, 44, 50>>), StrId(<<53>>), StrId(<<49, 48>>), StrId(<<49, 44, 49, 48>>)}

----------------------------------------------------------------------------
(* The manager as a state machine *)

St == [data |-> data, stream |-> stream, calls |-> <<>>, log |-> <<>>, raised |-> ""]

Cached(d) == {all_lines(d)[i] : i \in DOMAIN all_lines(d)}

MgrInit ==
    /\ drawn \in DrawnInputs
    /\ data = EmptyMap
    /\ stream = NoStream
    /\ lineIndex = [l \in 1..2 |-> NoIndex]
    /\ lineColor = [l \in 1..2 |-> NoColor]
    /\ nextIndex = 1
    /\ log = <<>>

KeyIdle ==
    /\ kpc = "idle"
    /\ ka = IntId(1)
    /\ kb = IntId(1)
    /\ kres = <<>>

FnIdle ==
    /\ call = [fn |-> "none", pc |-> "idle"]
    /\ args = <<>>
    /\ ret = <<>>

Init == MgrInit /\ KeyIdle /\ FnIdle

AddLine(x) ==
    LET r == add_line(St, x) IN
    /\ data' = r.data
    /\ stream' = r.stream
    /\ log' = r.log
    /\ UNCHANGED <<drawn, lineIndex, lineColor, nextIndex, keyVars, fnVars>>

AddLines(batch) ==
    LET r == add_lines(St, batch) IN
    /\ data' = r.data
    /\ stream' = r.stream
    /\ log' = r.log
    /\ UNCHANGED <<drawn, lineIndex, lineColor, nextIndex, keyVars, fnVars>>

DestroyLines(batch) ==
    LET r == destroy_lines(St, batch) IN
    /\ data' = r.data
    /\ stream' = r.stream
    /\ log' = r.log
    /\ UNCHANGED <<drawn, lineIndex, lineColor, nextIndex, keyVars, fnVars>>

GetLines(struct1, struct2) ==
    /\ data' = get_lines_for_structure_pair(data, struct1, struct2).data
    /\ log' = <<>>
    /\ UNCHANGED <<drawn, stream, lineIndex, lineColor, nextIndex, keyVars, fnVars>>

Upload(batch) ==
    LET r == host_upload(lineIndex, nextIndex, batch) IN
    /\ lineIndex' = r.lineIndex
    /\ nextIndex' = r.nextIndex
    /\ log' = <<>>
    /\ UNCHANGED <<drawn, data, stream, lineColor, keyVars, fnVars>>

Update(interactions_data, complexes, host_ok) ==
    LET r == update_interaction_lines(data, stream, lineIndex, lineColor,
                                      interactions_data, complexes, host_ok) IN
    /\ data' = r.data
    /\ stream' = r.stream
    /\ lineColor' = r.lineColor
    /\ log' = r.log
    /\ UNCHANGED <<drawn, lineIndex, nextIndex, keyVars, fnVars>>

Next ==
    \/ \E x \in Lines \cup {NotALine} : AddLine(x)
    \/ \E batch \in [1..MaxBatch -> Lines \cup {NotALine}] : AddLines(batch)
    \/ \E batch \in Batches(Lines) : DestroyLines(batch)
    \/ \E p \in PairInputs : GetLines(p[1], p[2])
    \/ \E batch \in Batches(Lines) : Upload(batch)
    \/ \E sd \in SettingsInputs, cx \in ComplexInputs, ok \in BOOLEAN : Update(sd, cx, ok)

Spec == Init /\ [][Next]_vars

----------------------------------------------------------------------------
(* get_structpair_key as a function of its two identifiers *)

KeyInit ==
    /\ MgrInit
    /\ kpc = "start"
    /\ ka \in KeyIds
    /\ kb \in KeyIds
    /\ kres = <<>>
    /\ FnIdle

KeyCall ==
    /\ kpc = "start"
    /\ kres' = get_structpair_key(ka, kb)
    /\ kpc' = "done"
    /\ UNCHANGED <<ka, kb, mgrVars, fnVars>>

KeyNext == KeyCall

SpecKey == KeyInit /\ [][KeyNext]_vars

----------------------------------------------------------------------------
(* Properties.  A property of an operation is stated over every reachable  *)
(* state and every input: the operation's result there is computed by the  *)
(* operator the action applies.                                            *)

Upd(sd, cx, ok) == update_interaction_lines(data, stream, lineIndex, lineColor, sd, cx, ok)

IndicesOf(ls) == [i \in DOMAIN ls |-> lineIndex[ls[i]]]

Count(x, list) == Cardinality({i \in DOMAIN list : list[i] = x})

KeyOfLine(l) == get_structpair_key_for_line(atom1_idx_arr(l), atom2_idx_arr(l))

PushCalls(calls) == {i \in DOMAIN calls : calls[i].call = "stream_update"}

CreateCalls(calls) == {i \in DOMAIN calls : calls[i].call = "create_writing_stream"}

Quad(buffer, i) == SubSeq(buffer, 4 * (i - 1) + 1, 4 * i)

\* C1: whenever update_interaction_lines pushes a colour buffer, the stream it
\* pushes through was created bound to exactly the indices of the lines now in
\* the cache, in all_lines() order, and the buffer has one RGBA quadruple per
\* bound index.
C1_PushMatchesCache ==
    \A sd \in SettingsInputs, cx \in ComplexInputs, ok \in BOOLEAN :
        LET r == Upd(sd, cx, ok) IN
        r.outcome = "pushed" =>
            \A i \in PushCalls(r.calls) :
                /\ r.calls[i].arg.bound = IndicesOf(all_lines(data))
                /\ Len(r.calls[i].arg.buffer) = 4 * Len(r.calls[i].arg.bound)

\* C2: every add_line that inserts a line and every destroy_lines that removes
\* a line leaves no live stream behind, so the next update cannot push through
\* the stream that existed before the mutation.
C2_MutationDestroysStream ==
    /\ \A x \in Lines :
           LET r == add_line(St, x) IN
           all_lines(r.data) # all_lines(data) => ~StreamLive(r.stream)
    /\ \A batch \in Batches(Lines) :
           LET r == destroy_lines(St, batch) IN
           all_lines(r.data) # all_lines(data) => ~StreamLive(r.stream)

\* C3: no pair key's list holds two entries of the same interaction kind.
C3_NoDuplicateKinds ==
    \A k \in DOMAIN data : \A i, j \in DOMAIN data[k] :
        i # j => LineKind(data[k][i]) # LineKind(data[k][j])

\* C4: after an add_line(L) that inserts L, get_lines_for_structure_pair on
\* L's two structures returns, in either argument order, a list holding L
\* exactly once; a following add_line of a different line of the same pair key
\* and kind leaves cache and stream unchanged.
C4_AddThenGet ==
    \A x \in Lines :
        LET r == add_line(St, x)
            s1 == Line(x).struct1
            s2 == Line(x).struct2
        IN  all_lines(r.data) # all_lines(data) =>
               /\ Count(x, get_lines_for_structure_pair(r.data, s1, s2).result) = 1
               /\ Count(x, get_lines_for_structure_pair(r.data, s2, s1).result) = 1
               /\ \A y \in Lines \ {x} :
                      (KeyOfLine(y) = KeyOfLine(x) /\ LineKind(y) = LineKind(x)) =>
                          LET r2 == add_line([St EXCEPT !.data = r.data, !.stream = r.stream], y)
                          IN  r2.data = r.data /\ r2.stream = r.stream /\ r2.raised = ""

\* a line is cached under "1,2|5", found from both argument orders, while the
\* caller holds a different line of the same pair and kind
C4_Witness ==
    \E x \in Lines, y \in Lines :
        /\ x # y
        /\ KeyOfLine(y) = KeyOfLine(x) /\ LineKind(y) = LineKind(x)
        /\ KeyOfLine(x) = <<49, 44, 50, 124, 53>>
        /\ Count(x, get_lines_for_structure_pair(data, S1, S2).result) = 1
        /\ Count(x, get_lines_for_structure_pair(data, S2, S1).result) = 1
        /\ Count(y, get_lines_for_structure_pair(data, S2, S1).result) = 0

\* C5: for a cached line L, destroy_lines([L]) makes exactly one bulk-destroy
\* call with exactly [L], and afterwards L is not cached while every other
\* cached line still is.
C5_DestroyOne ==
    \A x \in Cached(data) :
        LET r == destroy_lines(St, <<x>>) IN
        /\ r.raised = ""
        /\ r.calls = << [call |-> "destroy_multiple", arg |-> <<x>>] >>
        /\ Cached(r.data) = Cached(data) \ {x}

\* C6: destroy_lines never raises because an element is not cached, and still
\* removes every element of to_delete that is cached.
C6_DestroyNeverFails ==
    \A batch \in Batches(Lines) :
        LET r == destroy_lines(St, batch) IN
        /\ r.raised = ""
        /\ \A i \in DOMAIN batch : batch[i] \notin Cached(r.data)

\* the colour the settings and the frame call for
ExpectedRgba(l, sd, cx) ==
    sd[LineKind(l)].color \o
        << IF sd[LineKind(l)].visible /\ line_in_frame(l, FrameAtoms(cx)) THEN 255 ELSE 0 >>

\* C7: when an update pass completes, the quadruple pushed for each cached
\* line and the colour stored on it are the RGB of the line's kind with alpha
\* 255 iff the kind is visible and the line is in frame, else 0.
C7_ColoursFollowSettings ==
    \A sd \in SettingsInputs, cx \in ComplexInputs, ok \in BOOLEAN :
        LET r == Upd(sd, cx, ok) IN
        r.outcome = "pushed" =>
            /\ \A l \in Cached(r.data) : r.lineColor[l] = ExpectedRgba(l, sd, cx)
            /\ \A c \in PushCalls(r.calls) :
                   /\ Len(r.calls[c].arg.buffer) = 4 * Len(all_lines(data))
                   /\ \A i \in DOMAIN all_lines(data) :
                          Quad(r.calls[c].arg.buffer, i) = ExpectedRgba(all_lines(data)[i], sd, cx)
            /\ Cardinality(PushCalls(r.calls)) = 1

\* an update has left one cached line opaque and another transparent
C7_Witness ==
    \E l \in Cached(data), m \in Cached(data) :
        /\ lineColor[l] # NoColor /\ lineColor[l][4] = 255
        /\ lineColor[m] # NoColor /\ lineColor[m][4] = 0

\* C8: with no live stream and a falsy answer from create_writing_stream, the
\* pass pushes nothing and changes neither colours nor cache, asks the host
\* once, and the next update asks the host again.
C8_FailedCreationAborts ==
    \A sd \in SettingsInputs, cx \in ComplexInputs :
        LET r == Upd(sd, cx, FALSE) IN
        (~StreamLive(stream) /\ Len(cx) > 0 /\ Len(all_lines(data)) > 0) =>
            /\ r.data = data
            /\ r.lineColor = lineColor
            /\ PushCalls(r.calls) = {}
            /\ Cardinality(CreateCalls(r.calls)) = 1
            /\ ~StreamLive(r.stream)
            /\ \A ok2 \in BOOLEAN :
                   CreateCalls(update_interaction_lines(r.data, r.stream, lineIndex, r.lineColor,
                                                        sd, cx, ok2).calls) # {}

\* a creation has just failed on a non-empty cache
C8_Witness ==
    /\ log = << "Recreating Stream.", "Failed to Create stream." >>
    /\ stream = FalsyStream
    /\ Len(all_lines(data)) > 0

\* C9: with empty complexes, or with no cached line (also when the mapping
\* holds keys of empty lists), update returns having called the host for
\* nothing and changed neither cache, colours nor stream.
C9_NothingToUpdate ==
    \A sd \in SettingsInputs, cx \in ComplexInputs, ok \in BOOLEAN :
        LET r == Upd(sd, cx, ok) IN
        (Len(cx) = 0 \/ Len(all_lines(data)) = 0) =>
            /\ r.outcome = "returned"
            /\ r.calls = <<>>
            /\ r.data = data
            /\ r.stream = stream
            /\ r.lineColor = lineColor

\* an update has just returned on a mapping of empty lists, a stream being live
C9_Witness ==
    /\ log = << "No interaction lines to update, returning" >>
    /\ DOMAIN data # {}
    /\ Len(all_lines(data)) = 0
    /\ StreamLive(stream)

\* C10: get_structpair_key(a, b) = get_structpair_key(b, a), and it is the two
\* identifiers' strings in ascending lexicographic order joined by '|'.
C10_KeyCommutesSorted ==
    kpc = "done" =>
        /\ kres = get_structpair_key(kb, ka)
        /\ StrLeq(Str(ka), Str(kb)) => kres = Str(ka) \o BarSep \o Str(kb)
        /\ StrLeq(Str(kb), Str(ka)) => kres = Str(kb) \o BarSep \o Str(ka)

\* the key of (2, 10): "10" sorts before "2"
C10_Witness ==
    /\ kpc = "done"
    /\ ka = IntId(2) /\ kb = IntId(10)
    /\ kres = <<49, 48, 124, 50>>

----------------------------------------------------------------------------
(* Functions outside the shape manager, each called once on arguments      *)
(* drawn from a bounded set.  The shape manager is left as constructed.    *)

MgrIdle ==
    /\ drawn = <<>>
    /\ data = EmptyMap
    /\ stream = NoStream
    /\ lineIndex = <<>>
    /\ lineColor = <<>>
    /\ nextIndex = 1
    /\ log = <<>>

Calling(fn) == call = [fn |-> fn, pc |-> "start"]

Returned(fn) == call = [fn |-> fn, pc |-> "done"]

Return(fn, value) ==
    /\ Calling(fn)
    /\ call' = [fn |-> fn, pc |-> "done"]
    /\ ret' = value
    /\ UNCHANGED <<args, mgrVars, keyVars>>

----------------------------------------------------------------------------
(* get_structpair_key_for_line as a function of the two endpoint arrays *)

\* longest atom-index array of an endpoint
MaxArr == 2

AtomIds == {1, 2, 10}

ArrInputs == UNION {[1..n -> AtomIds] : n \in 1..MaxArr}

LineKeyInit ==
    /\ MgrIdle /\ KeyIdle
    /\ call = [fn |-> "get_structpair_key_for_line", pc |-> "start"]
    /\ args \in [atom1_idx_arr : ArrInputs, atom2_idx_arr : ArrInputs]
    /\ ret = <<>>

LineKeyCall ==
    Return("get_structpair_key_for_line",
           get_structpair_key_for_line(args.atom1_idx_arr, args.atom2_idx_arr))

LineKeyNext == LineKeyCall

SpecLineKey == LineKeyInit /\ [][LineKeyNext]_vars

\* b lists the same atom indices as a, in any order
IsPermutation(a, b) ==
    /\ Len(a) = Len(b)
    /\ \A x \in AtomIds : Cardinality({i \in DOMAIN a : a[i] = x})
                          = Cardinality({i \in DOMAIN b : b[i] = x})

\* C11: get_structpair_key_for_line gives the same key when the line's two
\* endpoint arrays are swapped, and when the atom indices inside either
\* endpoint array are permuted.
C11_LineKeySwapPermute ==
    Returned("get_structpair_key_for_line") =>
        /\ ret = get_structpair_key_for_line(args.atom2_idx_arr, args.atom1_idx_arr)
        /\ \A b1 \in ArrInputs, b2 \in ArrInputs :
               (IsPermutation(args.atom1_idx_arr, b1) /\ IsPermutation(args.atom2_idx_arr, b2))
                   => ret = get_structpair_key_for_line(b1, b2)

\* the key of a line from [10, 2] to [1] is "1|2,10": both sorts have acted
C11_Witness ==
    /\ Returned("get_structpair_key_for_line")
    /\ args.atom1_idx_arr = <<10, 2>>
    /\ args.atom2_idx_arr = <<1>>
    /\ ret = <<49, 124, 50, 44, 49, 48>>

----------------------------------------------------------------------------
(* InteractionLineManager (remote-query variant): the lines live on the    *)
(* host; a line is named by its position in the host's store.              *)

\* most lines the host stores
MaxRemote == 2

NoMolecule == 0

MoleculeIds == {1, 2}

\* an Interaction on the host: its kind, its visible flag, the molecule it is in
RemoteLines == [kind : Kinds, visible : BOOLEAN, mol : MoleculeIds]

RemoteStores == UNION {[1..n -> RemoteLines] : n \in 0..MaxRemote}

\* interactions_data[kind]['visible'] for every kind
VisibilityInputs ==
    { [k \in Kinds |-> [visible |-> v[k], color |-> IF k = "HydrogenBond" THEN <<1, 2, 3>> ELSE <<4, 5, 6>>]]
      : v \in [Kinds -> BOOLEAN] }

\* complexes, each given by its current_molecule's index, NoMolecule if it has none
RemoteComplexInputs == { <<>>, <<1>>, <<2, NoMolecule>>, <<1, 2>> }

RECURSIVE mol_indices(_)
mol_indices(complexes) ==
    IF Len(complexes) = 0 THEN <<>>
    ELSE IF Head(complexes) # NoMolecule
         THEN <<Head(complexes)>> \o mol_indices(Tail(complexes))
         ELSE mol_indices(Tail(complexes))

\* get_kwargs: molecules_idx is given only for non-empty complexes
get_kwargs(complexes) ==
    IF Len(complexes) > 0 THEN [given |-> TRUE, molecules_idx |-> mol_indices(complexes)]
    ELSE [given |-> FALSE, molecules_idx |-> <<>>]

RECURSIVE SelectIds(_, _, _)
SelectIds(store, i, keep) ==
    IF i > Len(store) THEN <<>>
    ELSE IF store[i].mol \in keep THEN <<i>> \o SelectIds(store, i + 1, keep)
         ELSE SelectIds(store, i + 1, keep)

\* Interaction.get(**get_kwargs): every stored line, or those of the given molecules
remote_all_lines(store, kwargs) ==
    IF kwargs.given
    THEN SelectIds(store, 1, {kwargs.molecules_idx[i] : i \in DOMAIN kwargs.molecules_idx})
    ELSE SelectIds(store, 1, MoleculeIds)

visibility_differs_always(line_visible, interaction_type_visible) == TRUE

visibility_differs(line_visible, interaction_type_visible) ==
    line_visible # interaction_type_visible

\* the loop over the fetched lines: acc = [store, lines_to_update]
RECURSIVE remote_update_loop(_, _, _)
remote_update_loop(acc, interactions, interactions_data) ==
    IF Len(interactions) = 0 THEN acc
    ELSE LET line == Head(interactions)
             interaction_type_visible == interactions_data[acc.store[line].kind].visible
         IN  IF visibility_differs(acc.store[line].visible, interaction_type_visible)
             THEN remote_update_loop(
                      [store |-> [acc.store EXCEPT ![line].visible = interaction_type_visible],
                       lines_to_update |-> Append(acc.lines_to_update, line)],
                      Tail(interactions), interactions_data)
             ELSE remote_update_loop(acc, Tail(interactions), interactions_data)

\* InteractionLineManager.update_interaction_lines; the upload stores the
\* flipped flags on the host
remote_update_interaction_lines(store, interactions_data, complexes) ==
    LET interactions == remote_all_lines(store, get_kwargs(complexes))
        done == remote_update_loop([store |-> store, lines_to_update |-> <<>>],
                                   interactions, interactions_data)
    IN  [store |-> done.store, interactions |-> interactions,
         calls |-> << [call |-> "upload_multiple", arg |-> done.lines_to_update] >>]

RemoteInit ==
    /\ MgrIdle /\ KeyIdle
    /\ call = [fn |-> "update_interaction_lines", pc |-> "start"]
    /\ args \in RemoteStores
    /\ ret = <<>>

RemoteUpdate(interactions_data, complexes) ==
    LET r == remote_update_interaction_lines(args, interactions_data, complexes) IN
    /\ call' = [fn |-> "update_interaction_lines", pc |-> "done"]
    /\ args' = r.store
    /\ ret' = r.calls
    /\ UNCHANGED <<mgrVars, keyVars>>

RemoteNext == \E sd \in VisibilityInputs, cx \in RemoteComplexInputs : RemoteUpdate(sd, cx)

SpecRemote == RemoteInit /\ [][RemoteNext]_vars

SeqToSet(q) == {q[i] : i \in DOMAIN q}

\* C12: the remote update uploads, in one bulk call, exactly the fetched
\* lines whose visible flag differed from their kind's configured one;
\* afterwards every fetched line's flag equals the configured one; the same
\* call made again uploads an empty list.
C12_UploadsExactlyChanged ==
    \A sd \in VisibilityInputs, cx \in RemoteComplexInputs :
        LET r == remote_update_interaction_lines(args, sd, cx)
            again == remote_update_interaction_lines(r.store, sd, cx)
        IN  /\ Len(r.calls) = 1 /\ r.calls[1].call = "upload_multiple"
            /\ SeqToSet(r.calls[1].arg) =
                   {i \in SeqToSet(r.interactions) : args[i].visible # sd[args[i].kind].visible}
            /\ Cardinality(SeqToSet(r.calls[1].arg)) = Len(r.calls[1].arg)
            /\ \A i \in SeqToSet(r.interactions) : r.store[i].visible = sd[r.store[i].kind].visible
            /\ \A i \in DOMAIN args \ SeqToSet(r.interactions) : r.store[i] = args[i]
            /\ again.interactions = r.interactions
            /\ again.calls = << [call |-> "upload_multiple", arg |-> <<>>] >>

\* an update has uploaded the first of two stored lines of one molecule and
\* left the second, which already had its kind's visibility
C12_Witness ==
    /\ Returned("update_interaction_lines")
    /\ Len(args) = 2
    /\ args[1].mol = args[2].mol
    /\ ret = << [call |-> "upload_multiple", arg |-> <<1>>] >>

----------------------------------------------------------------------------
(* InteractionLineManager.get_lines_for_structure_pair on a candidate list *)

\* str.split(','): the pieces between commas
RECURSIVE SplitComma(_)
SplitComma(s) ==
    IF \A i \in DOMAIN s : s[i] # CommaSep[1] THEN <<s>>
    ELSE LET k == CHOOSE i \in DOMAIN s : s[i] = CommaSep[1] /\ \A j \in 1..(i - 1) : s[j] # CommaSep[1]
         IN  <<SubSeq(s, 1, k - 1)>> \o SplitComma(SubSeq(s, k + 1, Len(s)))

\* int() of a string of decimal digits
RECURSIVE StrToInt(_)
StrToInt(s) ==
    IF Len(s) = 1 THEN s[1] - DigitChar(0)
    ELSE 10 * StrToInt(SubSeq(s, 1, Len(s) - 1)) + (s[Len(s)] - DigitChar(0))

\* [int(x) for x in struct.index.split(',')]
struct_atom_indices(struct) ==
    [i \in DOMAIN SplitComma(StructIndex(struct).v) |-> StrToInt(SplitComma(StructIndex(struct).v)[i])]

\* all(i in arr for i in indices)
all_in(indices, arr) ==
    \A i \in DOMAIN indices : \E j \in DOMAIN arr : arr[j] = indices[i]

conformers_match_ignored(struct1_correct_conformer, struct2_correct_conformer) == TRUE

conformers_match(struct1_correct_conformer, struct2_correct_conformer) ==
    struct1_correct_conformer /\ struct2_correct_conformer

\* the body of the loop for one candidate: is it appended to struct_lines
remote_line_connects(struct1, struct2, line) ==
    LET struct1_atom_indices == struct_atom_indices(struct1)
        struct2_atom_indices == struct_atom_indices(struct2)
        struct1_is_line_atom1 == all_in(struct1_atom_indices, line.atom1_idx_arr)
        struct1_is_line_atom2 == all_in(struct1_atom_indices, line.atom2_idx_arr)
        struct2_is_line_atom1 == all_in(struct2_atom_indices, line.atom1_idx_arr)
        struct2_is_line_atom2 == all_in(struct2_atom_indices, line.atom2_idx_arr)
        expected_struct1_conformation ==
            IF struct1_is_line_atom1 THEN line.atom1_conformation ELSE line.atom2_conformation
        expected_struct2_conformation ==
            IF struct2_is_line_atom1 THEN line.atom1_conformation ELSE line.atom2_conformation
    IN  IF ~struct1_is_line_atom1 /\ ~struct1_is_line_atom2 THEN FALSE
        ELSE IF ~struct2_is_line_atom1 /\ ~struct2_is_line_atom2 THEN FALSE
        ELSE conformers_match(struct1.conformer = expected_struct1_conformation,
                              struct2.conformer = expected_struct2_conformation)

RECURSIVE remote_get_lines_for_structure_pair(_, _, _)
remote_get_lines_for_structure_pair(struct1, struct2, existing_lines) ==
    IF Len(existing_lines) = 0 THEN <<>>
    ELSE (IF remote_line_connects(struct1, struct2, Head(existing_lines))
          THEN <<Head(existing_lines)>> ELSE <<>>)
         \o remote_get_lines_for_structure_pair(struct1, struct2, Tail(existing_lines))

\* longest candidate list
MaxCandidates == 2

Conformers == {0, 1}

RemoteStructs == [atoms : {<<1>>, <<10>>, <<10, 1>>}, conformer : Conformers]

CandidateLines ==
    [atom1_idx_arr : {<<1>>, <<10, 1>>}, atom2_idx_arr : {<<1>>, <<10, 1>>},
     atom1_conformation : Conformers, atom2_conformation : Conformers]

CandidateLists == UNION {[1..n -> CandidateLines] : n \in 0..MaxCandidates}

PairQueryInit ==
    /\ MgrIdle /\ KeyIdle
    /\ call = [fn |-> "get_lines_for_structure_pair", pc |-> "start"]
    /\ args \in [struct1 : RemoteStructs, struct2 : RemoteStructs, existing_lines : CandidateLists]
    /\ ret = <<>>

PairQueryCall ==
    Return("get_lines_for_structure_pair",
           remote_get_lines_for_structure_pair(args.struct1, args.struct2, args.existing_lines))

PairQueryNext == PairQueryCall

SpecPairQuery == PairQueryInit /\ [][PairQueryNext]_vars

\* the atoms a structure consists of
AtomSet(struct) == {struct.atoms[i] : i \in DOMAIN struct.atoms}

EndpointAtoms(line, e) ==
    IF e = 1 THEN {line.atom1_idx_arr[i] : i \in DOMAIN line.atom1_idx_arr}
    ELSE {line.atom2_idx_arr[i] : i \in DOMAIN line.atom2_idx_arr}

EndpointConformer(line, e) ==
    IF e = 1 THEN line.atom1_conformation ELSE line.atom2_conformation

\* the endpoints of line whose atom-index array contains all of struct's atoms
ContainingEnds(struct, line) == {e \in {1, 2} : AtomSet(struct) \subseteq EndpointAtoms(line, e)}

\* the endpoint a structure is matched with: the first one that contains it
MatchedEnd(struct, line) == CHOOSE e \in ContainingEnds(struct, line) :
                                \A o \in ContainingEnds(struct, line) : e <= o

PassesBoth(struct1, struct2, line) ==
    /\ ContainingEnds(struct1, line) # {}
    /\ ContainingEnds(struct2, line) # {}
    /\ struct1.conformer = EndpointConformer(line, MatchedEnd(struct1, line))
    /\ struct2.conformer = EndpointConformer(line, MatchedEnd(struct2, line))

\* C13: the remote-query get_lines_for_structure_pair returns, in candidate
\* order, exactly the candidates for which each of s1 and s2 has all its atoms
\* in at least one endpoint's array and each structure's conformer equals the
\* conformer tag of the endpoint it matched (the first endpoint containing it).
C13_ExactlyMatchingCandidates ==
    Returned("get_lines_for_structure_pair") =>
        ret = SelectSeq(args.existing_lines,
                        LAMBDA line : PassesBoth(args.struct1, args.struct2, line))

\* two candidates pass containment; the first is returned, the second is
\* dropped by the conformer check alone
C13_Witness ==
    /\ Returned("get_lines_for_structure_pair")
    /\ Len(args.existing_lines) = 2
    /\ \A i \in 1..2 : /\ ContainingEnds(args.struct1, args.existing_lines[i]) = {2}
                       /\ ContainingEnds(args.struct2, args.existing_lines[i]) = {1, 2}
    /\ ret = << args.existing_lines[1] >>
    /\ args.existing_lines[2] # args.existing_lines[1]

\* the same line, recorded with its endpoints the other way round
SwapEndpoints(line) ==
    [atom1_idx_arr |-> line.atom2_idx_arr, atom2_idx_arr |-> line.atom1_idx_arr,
     atom1_conformation |-> line.atom2_conformation, atom2_conformation |-> line.atom1_conformation]

\* C17: a candidate is returned iff the same candidate with its two endpoints
\* swapped is returned, also when a structure is contained in both endpoints
\* and the endpoints carry different conformer tags.
C17_EndpointOrderIrrelevant ==
    Returned("get_lines_for_structure_pair") =>
        \A i \in DOMAIN args.existing_lines :
            LET line == args.existing_lines[i] IN
            (\E j \in DOMAIN ret : ret[j] = line)
                <=> remote_get_lines_for_structure_pair(args.struct1, args.struct2,
                                                        << SwapEndpoints(line) >>) # <<>>

----------------------------------------------------------------------------
(* utils.merge_complexes and utils.extract_residues_from_complex.  A       *)
(* complex is [index, current_frame, molecules]; a molecule is its list of *)
(* chains; a chain is [name, residues]; a residue is [index, atoms]; the   *)
(* atoms that are selected are given as a set.                             *)

\* longest list of complexes handed to merge_complexes
MaxMerge == 2

\* index of a complex the host has not been given
NewIndex == -1

Res(index, atoms) == [index |-> index, atoms |-> atoms]

Chn(name, residues) == [name |-> name, residues |-> residues]

\* one frame, one chain of two residues
CompA == [index |-> 1, current_frame |-> 0,
          molecules |-> << << Chn("A", << Res(11, <<1, 2>>), Res(12, <<3>>) >>) >> >>]

\* two frames; the first has two chains
CompB(frame) ==
    [index |-> 2, current_frame |-> frame,
     molecules |-> << << Chn("B", << Res(21, <<4>>) >>),
                         Chn("C", << Res(22, <<5>>), Res(23, <<6>>) >>) >>,
                      << Chn("B", << Res(24, <<7>>) >>) >> >>]

\* one frame, a chain of one residue and a chain of none
CompC == [index |-> 3, current_frame |-> 0,
          molecules |-> << << Chn("D", << Res(31, <<8>>) >>), Chn("E", <<>>) >> >>]

MergeComplexes == {CompA, CompB(0), CompB(1), CompC}

MergeLists == UNION {[1..n -> MergeComplexes] : n \in 1..MaxMerge}

SelectionInputs == SUBSET {1, 4, 5, 7, 8}

RECURSIVE ConcatAll(_)
ConcatAll(seqs) == IF Len(seqs) = 0 THEN <<>> ELSE Head(seqs) \o ConcatAll(Tail(seqs))

\* Complex.chains: the chains of every molecule, in order
comp_chains(comp) == ConcatAll(comp.molecules)

\* Complex.residues: the residues of every chain, in order
comp_residues(comp) ==
    ConcatAll([i \in DOMAIN comp_chains(comp) |-> comp_chains(comp)[i].residues])

\* any(a.selected for a in res.atoms)
any_selected(res, selected) == \E i \in DOMAIN res.atoms : res.atoms[i] \in selected

keep_chain_always(reses_on_chain) == TRUE

\* `if reses_on_chain`
keep_chain(reses_on_chain) == Len(reses_on_chain) > 0

\* the loop of extract_residues_from_complex over comp.chains
RECURSIVE extract_loop(_, _)
extract_loop(chains, binding_site_residue_indices) ==
    IF Len(chains) = 0 THEN <<>>
    ELSE LET ch == Head(chains)
             reses_on_chain ==
                 SelectSeq(ch.residues,
                           LAMBDA res : \E i \in DOMAIN binding_site_residue_indices :
                                            binding_site_residue_indices[i] = res.index)
         IN  (IF keep_chain(reses_on_chain) THEN << Chn(ch.name, reses_on_chain) >> ELSE <<>>)
             \o extract_loop(Tail(chains), binding_site_residue_indices)

extract_residues_from_complex(comp, residue_list) ==
    LET binding_site_residue_indices == [i \in DOMAIN residue_list |-> residue_list[i].index]
    IN  [index |-> NewIndex, current_frame |-> 0,
         molecules |-> << extract_loop(comp_chains(comp), binding_site_residue_indices) >>]

\* the loop of merge_complexes: the chains added to mol so far
RECURSIVE merge_loop(_, _, _, _, _)
merge_loop(mol, complexes, align_reference, selected_atoms_only, selected) ==
    IF Len(complexes) = 0 THEN mol
    ELSE LET comp == Head(complexes)
             existing_mol == comp.molecules[comp.current_frame + 1]
             selected_residues ==
                 SelectSeq(comp_residues(comp), LAMBDA res : any_selected(res, selected))
             extracted_comp == extract_residues_from_complex(comp, selected_residues)
             added == IF selected_atoms_only /\ comp.index # align_reference.index
                      THEN comp_chains(extracted_comp)
                      ELSE existing_mol
         IN  merge_loop(mol \o added, Tail(complexes), align_reference,
                        selected_atoms_only, selected)

merge_complexes(complexes, align_reference, selected_atoms_only, selected) ==
    [index |-> NewIndex, current_frame |-> 0,
     molecules |-> << merge_loop(<<>>, complexes, align_reference, selected_atoms_only, selected) >>]

MergeInit ==
    /\ MgrIdle /\ KeyIdle
    /\ call = [fn |-> "merge_complexes", pc |-> "start"]
    /\ args \in [complexes : MergeLists, align_reference : MergeComplexes,
                 selected_atoms_only : BOOLEAN, selected : SelectionInputs]
    /\ ret = <<>>

MergeCall ==
    Return("merge_complexes",
           merge_complexes(args.complexes, args.align_reference,
                           args.selected_atoms_only, args.selected))

MergeNext == MergeCall

SpecMerge == MergeInit /\ [][MergeNext]_vars

\* what one input is to contribute
FilteredResidues(ch, selected) == SelectSeq(ch.residues, LAMBDA res : any_selected(res, selected))

Contribution(comp, align_reference, selected_atoms_only, selected) ==
    IF selected_atoms_only /\ comp.index # align_reference.index
    THEN LET with == SelectSeq(comp_chains(comp),
                               LAMBDA ch : FilteredResidues(ch, selected) # <<>>)
         IN  [i \in DOMAIN with |-> Chn(with[i].name, FilteredResidues(with[i], selected))]
    ELSE comp.molecules[comp.current_frame + 1]

\* C14: the merged complex has one molecule, whose chains are the
\* concatenation, in input order, of each input's contribution: every chain
\* of its active frame, or (selected_atoms_only, not the reference) its
\* chains rebuilt from the residues holding a selected atom, under the same
\* names, without the chains that have no such residue.
C14_MergedChains ==
    Returned("merge_complexes") =>
        /\ Len(ret.molecules) = 1
        /\ ret.molecules[1] =
               ConcatAll([i \in DOMAIN args.complexes |->
                              Contribution(args.complexes[i], args.align_reference,
                                           args.selected_atoms_only, args.selected)])

\* [A, B] merged on reference A with atoms 1 and 5 selected: A gives its
\* chain as it is, B gives chain "C" rebuilt from residue 22 alone
C14_Witness ==
    /\ Returned("merge_complexes")
    /\ args.complexes = << CompA, CompB(0) >>
    /\ args.align_reference = CompA
    /\ args.selected_atoms_only
    /\ args.selected = {1, 5}
    /\ ret.molecules = << << Chn("A", << Res(11, <<1, 2>>), Res(12, <<3>>) >>),
                             Chn("C", << Res(22, <<5>>) >>) >> >>

----------------------------------------------------------------------------
(* utils.calculate_binding_site_atoms.  A molecule is its list of chains;  *)
(* a chain is [name, atoms]; an atom is [id, position]; positions are      *)
(* points of an integer grid.                                              *)

\* most ligand atoms
MaxLigand == 1

\* largest x coordinate of the grid
MaxCoord == 2

Grid == {<<x, y, 0>> : x \in 0..MaxCoord, y \in 0..1}

SiteSizes == {1, 2}

Atom(id, position) == [id |-> id, position |-> position]

\* chain names "A" and "HOH"
NameA == <<65>>
NameHOH == <<72, 79, 72>>
NameH == <<72>>

\* the frame the positions are drawn for: two atoms in chain "A", one in "HOH"
SiteMolecule(p1, p2, p3) ==
    << [name |-> NameA, atoms |-> << Atom(1, p1), Atom(2, p2) >>],
       [name |-> NameHOH, atoms |-> << Atom(3, p3) >>] >>

\* another frame of the same complex
OtherMolecule ==
    << [name |-> NameA, atoms |-> << Atom(4, <<0, 0, 0>>) >>],
       [name |-> NameH, atoms |-> << Atom(5, <<1, 0, 0>>) >>] >>

SiteTargets ==
    { [current_frame |-> f, molecules |-> << SiteMolecule(p1, p2, p3), OtherMolecule >>]
      : f \in {0, 1}, p1 \in Grid, p2 \in Grid, p3 \in Grid }

LigandInputs == UNION {[1..n -> Grid] : n \in 1..MaxLigand}

\* ch.name.startswith("H")
starts_with_H(name) == Len(name) >= 1 /\ name[1] = NameH[1]

\* atoms of a list of chains, in order
chain_atoms(chains) == ConcatAll([i \in DOMAIN chains |-> chains[i].atoms])

SquaredDistance(p, q) ==
    (p[1] - q[1]) * (p[1] - q[1]) + (p[2] - q[2]) * (p[2] - q[2]) + (p[3] - q[3]) * (p[3] - q[3])

\* KDTree.query_ball_point(ligand_positions, site_size): for each ligand
\* position, the indices of the tree's points within site_size of it
query_ball_point(tree_data, ligand_positions, site_size) ==
    [l \in DOMAIN ligand_positions |->
        {i \in DOMAIN tree_data :
            SquaredDistance(tree_data[i], ligand_positions[l]) <= site_size * site_size}]

calculate_binding_site_atoms(target_reference, ligand_positions, site_size) ==
    LET mol == target_reference.molecules[target_reference.current_frame + 1]
        target_atoms == chain_atoms(SelectSeq(mol, LAMBDA ch : ~starts_with_H(ch.name)))
        tree_data == [i \in DOMAIN target_atoms |-> target_atoms[i].position]
        target_point_indices == query_ball_point(tree_data, ligand_positions, site_size)
        near_point_set == {tree_data[i] : i \in UNION {target_point_indices[l] :
                                                          l \in DOMAIN target_point_indices}}
    IN  SelectSeq(chain_atoms(mol), LAMBDA targ_atom : targ_atom.position \in near_point_set)

SiteInit ==
    /\ MgrIdle /\ KeyIdle
    /\ call = [fn |-> "calculate_binding_site_atoms", pc |-> "start"]
    /\ args \in [target_reference : SiteTargets, ligand_positions : LigandInputs,
                 site_size : SiteSizes]
    /\ ret = <<>>

SiteCall ==
    Return("calculate_binding_site_atoms",
           calculate_binding_site_atoms(args.target_reference, args.ligand_positions,
                                        args.site_size))

SiteNext == SiteCall

SpecSite == SiteInit /\ [][SiteNext]_vars

ActiveMolecule == args.target_reference.molecules[args.target_reference.current_frame + 1]

\* C15: every active-frame atom of a chain not named "H..." that sits exactly
\* on a ligand atom is in the result; no atom of a chain named "H..." is in
\* the result, whatever its position; no atom is in the result twice.
C15_BindingSiteAtoms ==
    Returned("calculate_binding_site_atoms") =>
        /\ \A c \in DOMAIN ActiveMolecule : \A a \in DOMAIN ActiveMolecule[c].atoms :
               LET atom == ActiveMolecule[c].atoms[a] IN
               /\ (/\ ~starts_with_H(ActiveMolecule[c].name)
                   /\ \E l \in DOMAIN args.ligand_positions :
                          args.ligand_positions[l] = atom.position)
                      => \E i \in DOMAIN ret : ret[i] = atom
               /\ starts_with_H(ActiveMolecule[c].name)
                      => \A i \in DOMAIN ret : ret[i].id # atom.id
        /\ \A i, j \in DOMAIN ret : i # j => ret[i].id # ret[j].id

----------------------------------------------------------------------------
(* LabelManager: one label per structure pair; and clear() on both         *)
(* cache-backed managers.  A label manager's state is its mapping.         *)

LabelIds == {1, 2}

LabelStructIds == {IntId(1), IntId(2)}

LabelKeys == {get_structpair_key(a, b) : a \in LabelStructIds, b \in LabelStructIds}

\* the mappings a label manager can hold
LabelMaps == UNION {[K -> LabelIds] : K \in SUBSET LabelKeys}

\* LabelManager.all_labels: the labels in ascending key order
all_labels(d) == [i \in DOMAIN SortedKeys(DOMAIN d) |-> d[SortedKeys(DOMAIN d)[i]]]

\* LabelManager.add_label, for an object that is a Label
add_label(d, label, struct1_index, struct2_index) ==
    LET structpair_key == get_structpair_key(struct1_index, struct2_index)
    IN  [k \in DOMAIN d \cup {structpair_key} |-> IF k = structpair_key THEN label ELSE d[k]]

\* LabelManager.clear
label_clear(d) ==
    LET labels == all_labels(d)
    IN  [data |-> EmptyMap,
         calls |-> IF Len(labels) > 0 THEN << [call |-> "destroy_multiple", arg |-> labels] >>
                   ELSE <<>>,
         raised |-> ""]

\* ShapesLineManager.clear: neither the class nor StructurePairManager
\* defines it, so the call raises AttributeError
shape_clear(st) == [st EXCEPT !.raised = "AttributeError"]

\* C16: clear() on the label manager and on the shape manager hands every
\* cached entity to one bulk-destroy call and leaves the cache empty, so that
\* all_labels() / all_lines() is empty afterwards and a later add works on the
\* emptied cache.
C16_ClearEmptiesCache ==
    /\ \A d \in LabelMaps :
           LET r == label_clear(d) IN
           /\ r.raised = ""
           /\ Len(all_labels(d)) > 0 =>
                  r.calls = << [call |-> "destroy_multiple", arg |-> all_labels(d)] >>
           /\ all_labels(r.data) = <<>>
           /\ \A l \in LabelIds, a \in LabelStructIds, b \in LabelStructIds :
                  all_labels(add_label(r.data, l, a, b)) = <<l>>
    /\ Len(all_lines(data)) > 0 =>
           LET r == shape_clear(St) IN
           /\ r.raised = ""
           /\ r.calls = << [call |-> "destroy_multiple", arg |-> all_lines(data)] >>
           /\ all_lines(r.data) = <<>>

\* C18: an update pass of the shape manager leaves all_lines() the same
\* sequence of line entities: nothing added, removed, duplicated or reordered.
C18_UpdateKeepsLines ==
    \A sd \in SettingsInputs, cx \in ComplexInputs, ok \in BOOLEAN :
        all_lines(Upd(sd, cx, ok).data) = all_lines(data)

====
